---- MODULE Spec2Model ----
(***************************************************************************)
(* Model of the device session controller of the Roboclaw control panel    *)
(* (src/src/bin/gui.rs): connection lifecycle, command dispatch, telemetry *)
(* polling and the arbitration of the single status message.               *)
(*                                                                         *)
(* The RoboclawGUI struct is the record `gui`.  Strings are TLA+ strings   *)
(* and String::contains is computed on their characters.  Every handler of *)
(* the struct is an operator from a struct value (and the outcomes of the  *)
(* device operations it performs) to the struct value it leaves and the    *)
(* device operations it issued; the actions are the places where           *)
(* eframe::App::update invokes those handlers.                             *)
(***************************************************************************)
EXTENDS Integers, Sequences, FiniteSets, TLC

VARIABLES
    gui,    \* the RoboclawGUI struct
    calls,  \* device operations issued by the most recent step, in order
    event   \* the most recent step: the handler invoked and the outcome of its
            \* device operation (of the transport open for connect)

vars == <<gui, calls, event>>

(***************************************************************************)
(* Bounds of the model.                                                    *)
(***************************************************************************)
\* The clock stops being advanced once last_update.elapsed() reaches this.
MaxElapsed == 2500
\* A slider value (f32, percent) is held as an integer count of 1/SliderUnits percent.
SliderUnits == 2000

Pct(p) == p * SliderUnits
\* Display texts of the device errors (the comment at gui.rs:203 names "crc error").
DeviceErrors == {"crc error", "timeout"}
\* Display texts of the transport-open errors.
OpenErrors == {"No such file or directory"}
\* Values the device reports.
Volts == {120}
EncoderPairs == {<<7, 9>>}
FlagWords == {0}
BufferPairs == {<<0, 128>>}

(***************************************************************************)
(* Option and Result values.                                               *)
(***************************************************************************)
None == <<>>
Some(v) == <<v>>
Ok(v) == [ok |-> TRUE, v |-> v]
Err(e) == [ok |-> FALSE, e |-> e]

Results(vals, errs) == {Ok(v) : v \in vals} \cup {Err(e) : e \in errs}

\* A device operation as it appears in calls: its name and arguments.
Call(op, args) == [op |-> op, args |-> args]

(***************************************************************************)
(* String::contains                                                        *)
(***************************************************************************)
Contains(s, p) ==
    \E i \in 1..(Len(s) - Len(p) + 1) : SubSeq(s, i, i + Len(p) - 1) = p

(***************************************************************************)
(* Numeric conversions: `x as i32` on an f32 truncates toward zero and     *)
(* saturates at the bounds of i32.                                         *)
(***************************************************************************)
I32Min == -2147483647 - 1
I32Max == 2147483647

TruncDiv(a, b) == IF a >= 0 THEN a \div b ELSE -((-a) \div b)

AsI32(num, den) ==
    LET t == TruncDiv(num, den)
    IN  IF t > I32Max THEN I32Max ELSE IF t < I32Min THEN I32Min ELSE t

(***************************************************************************)
(* Default for RoboclawGUI.  last_update is held as last_update.elapsed()  *)
(* in ms: the time since the Instant it stores.                            *)
(***************************************************************************)
Default ==
    [ port_name             |-> "/dev/tty.usbmodem101",
      baud_rate             |-> 38400,
      connected             |-> FALSE,
      m1_speed              |-> 0,
      m2_speed              |-> 0,
      mixed_speed           |-> 0,
      mixed_turn            |-> 0,
      main_battery_voltage  |-> None,
      logic_battery_voltage |-> None,
      encoder_m1            |-> None,
      encoder_m2            |-> None,
      status_flags          |-> None,
      config_flags          |-> None,
      buffer_status         |-> None,
      last_update           |-> 0,
      status_message        |-> "Disconnected",
      roboclaw              |-> None ]

\* What a handler leaves: the struct and the device operations it issued.
Done(g, cs) == [gui |-> g, calls |-> cs]

(***************************************************************************)
(* connect: `open` is the outcome of serialport::...::open().              *)
(***************************************************************************)
\* Mutant: the verification round-trip that the code keeps commented out.
connect_verifying(g, open) ==
    IF open.ok
    THEN Done([g EXCEPT !.roboclaw = Some(open.v),
                        !.connected = TRUE,
                        !.status_message = "Connected - Testing communication..."],
              <<Call("read_main_battery_voltage", <<>>)>>)
    ELSE Done([g EXCEPT !.status_message = "Failed to open port: " \o open.e], <<>>)

connect(g, open) ==
    LET g1 == IF open.ok THEN g
              ELSE [g EXCEPT !.status_message = "Failed to open port: " \o open.e]
    IN  IF open.ok
        THEN Done([g1 EXCEPT !.roboclaw = Some(open.v),
                             !.connected = TRUE,
                             !.status_message = "Connected - Testing communication..."],
                  <<>>)
        ELSE IF g1.status_message = ""
        THEN Done([g1 EXCEPT !.status_message = "Failed to initialize Roboclaw"], <<>>)
        ELSE Done(g1, <<>>)

\* Mutant: disconnect keeps the port open.
disconnect_keeping_handle(g) ==
    Done([g EXCEPT !.connected = FALSE,
                   !.status_message = "Disconnected"],
         <<>>)

\* Mutant: disconnect acts only on a session that holds a handle.
disconnect_when_connected(g) ==
    IF g.roboclaw = None
    THEN Done(g, <<>>)
    ELSE Done([g EXCEPT !.roboclaw = None,
                        !.connected = FALSE,
                        !.status_message = "Disconnected"],
              <<>>)

disconnect(g) ==
    Done([g EXCEPT !.roboclaw = None,
                   !.connected = FALSE,
                   !.status_message = "Disconnected"],
         <<>>)

(***************************************************************************)
(* emergency_stop: `res` is the outcome of speed_m1_m2(0, 0), which the    *)
(* code discards.                                                          *)
(***************************************************************************)
\* Mutant: the mixed intents are forgotten.
emergency_stop_individual_only(g, res) ==
    IF g.roboclaw = None
    THEN Done(g, <<>>)
    ELSE Done([g EXCEPT !.m1_speed = 0, !.m2_speed = 0],
              <<Call("speed_m1_m2", <<0, 0>>)>>)

\* Mutant: the outcome of the device call is reported as a send's is.
emergency_stop_reporting(g, res) ==
    IF g.roboclaw = None
    THEN Done(g, <<>>)
    ELSE Done([g EXCEPT !.m1_speed = 0, !.m2_speed = 0,
                        !.mixed_speed = 0, !.mixed_turn = 0,
                        !.status_message =
                            IF res.ok THEN "Connected"
                            ELSE "Motor control error: " \o res.e],
              <<Call("speed_m1_m2", <<0, 0>>)>>)

emergency_stop(g, res) ==
    IF g.roboclaw = None
    THEN Done(g, <<>>)
    ELSE Done([g EXCEPT !.m1_speed = 0, !.m2_speed = 0,
                        !.mixed_speed = 0, !.mixed_turn = 0],
              <<Call("speed_m1_m2", <<0, 0>>)>>)

(***************************************************************************)
(* Status texts of the command dispatcher.                                 *)
(***************************************************************************)
MotorControlError(e, m1, m2) ==
    "Motor control error: " \o e \o " (M1:" \o ToString(m1) \o ", M2:"
        \o ToString(m2) \o ")"

MixedControlError(e, l, r) ==
    "Mixed control error: " \o e \o " (L:" \o ToString(l) \o ", R:"
        \o ToString(r) \o ")"

\* Mutant: a send error does not replace a telemetry-read-failure text.
AfterSendKeepingReadFailure(g, res, errText) ==
    IF ~Contains(g.status_message, "Failed to read")
    THEN [g EXCEPT !.status_message = IF res.ok THEN "Connected" ELSE errText]
    ELSE g

\* Mutant: a successful send always restores "Connected".
AfterSendAlwaysConnected(g, res, errText) ==
    [g EXCEPT !.status_message = IF res.ok THEN "Connected" ELSE errText]

\* The match on the outcome of speed_m1_m2 shared by both senders.
AfterSend(g, res, errText) ==
    IF res.ok
    THEN IF ~Contains(g.status_message, "Failed to read")
         THEN [g EXCEPT !.status_message = "Connected"]
         ELSE g
    ELSE [g EXCEPT !.status_message = errText]

\* Mutant: the two channels are sent in the other order.
update_motor_speeds_swapped(g, res) ==
    IF g.roboclaw = None
    THEN Done(g, <<>>)
    ELSE LET m1_speed_i32 == AsI32(g.m1_speed * 1000, SliderUnits)
             m2_speed_i32 == AsI32(g.m2_speed * 1000, SliderUnits)
         IN  Done(AfterSend(g, res,
                     IF res.ok THEN ""
                     ELSE MotorControlError(res.e, m1_speed_i32, m2_speed_i32)),
                  <<Call("speed_m1_m2", <<m2_speed_i32, m1_speed_i32>>)>>)

update_motor_speeds(g, res) ==
    IF g.roboclaw = None
    THEN Done(g, <<>>)
    ELSE LET m1_speed_i32 == AsI32(g.m1_speed * 1000, SliderUnits)
             m2_speed_i32 == AsI32(g.m2_speed * 1000, SliderUnits)
         IN  Done(AfterSend(g, res,
                     IF res.ok THEN ""
                     ELSE MotorControlError(res.e, m1_speed_i32, m2_speed_i32)),
                  <<Call("speed_m1_m2", <<m1_speed_i32, m2_speed_i32>>)>>)

\* Mutant: the turn has the authority of the speed.
update_mixed_control_full_turn(g, res) ==
    IF g.roboclaw = None
    THEN Done(g, <<>>)
    ELSE LET base_speed      == g.mixed_speed * 1000
             turn_adjustment == g.mixed_turn * 1000
             left_speed      == AsI32(base_speed - turn_adjustment, SliderUnits)
             right_speed     == AsI32(base_speed + turn_adjustment, SliderUnits)
         IN  Done(AfterSend(g, res,
                     IF res.ok THEN ""
                     ELSE MixedControlError(res.e, left_speed, right_speed)),
                  <<Call("speed_m1_m2", <<left_speed, right_speed>>)>>)

update_mixed_control(g, res) ==
    IF g.roboclaw = None
    THEN Done(g, <<>>)
    ELSE \* both products are numerators over SliderUnits
         LET base_speed      == g.mixed_speed * 1000
             turn_adjustment == g.mixed_turn * 500
             left_speed      == AsI32(base_speed - turn_adjustment, SliderUnits)
             right_speed     == AsI32(base_speed + turn_adjustment, SliderUnits)
         IN  Done(AfterSend(g, res,
                     IF res.ok THEN ""
                     ELSE MixedControlError(res.e, left_speed, right_speed)),
                  <<Call("speed_m1_m2", <<left_speed, right_speed>>)>>)

(***************************************************************************)
(* read_status.  `r` holds the outcomes of the six reads of a poll pass.   *)
(***************************************************************************)
\* Mutant: a reset error is given the priority of a motor control error.
MotorOrResetErrorShowing(msg) ==
    \/ Contains(msg, "Motor control error")
    \/ Contains(msg, "Mixed control error")
    \/ Contains(msg, "Reset encoders error")

MotorErrorShowing(msg) ==
    Contains(msg, "Motor control error") \/ Contains(msg, "Mixed control error")

NormalPollMs == 500
SlowPollMs == 2000

\* Mutant: only the "Failed to read" marker slows the polling.
polling_interval_without_crc(msg) ==
    IF Contains(msg, "Failed to read") THEN SlowPollMs ELSE NormalPollMs

\* Mutant: with a failure marker showing the poller backs off twice as far.
polling_interval_backing_off(msg) ==
    IF Contains(msg, "crc error") \/ Contains(msg, "Failed to read")
    THEN 2 * SlowPollMs
    ELSE NormalPollMs

polling_interval(msg) ==
    IF Contains(msg, "crc error") \/ Contains(msg, "Failed to read")
    THEN SlowPollMs
    ELSE NormalPollMs

\* Mutant: the failure text is written whatever is showing.
ReadFailedUnguarded(g, text) == [g EXCEPT !.status_message = text]

\* The else branch of a voltage, encoder or fault-register read: a failure
\* text unless a motor or mixed control error is showing.
ReadFailed(g, text) ==
    IF ~MotorErrorShowing(g.status_message)
    THEN [g EXCEPT !.status_message = text]
    ELSE g

\* Mutant: a failed fault-register read does not silence the reads after it.
LateReadFailedUnsuppressed(g, text) ==
    IF ~MotorErrorShowing(g.status_message)
    THEN [g EXCEPT !.status_message = text]
    ELSE g

\* The else branch of the config and buffer reads.
LateReadFailed(g, text) ==
    IF /\ ~MotorErrorShowing(g.status_message)
       /\ ~Contains(g.status_message, "Failed to read error status")
    THEN [g EXCEPT !.status_message = text]
    ELSE g

ReadMainBattery(g, res) ==
    IF res.ok THEN [g EXCEPT !.main_battery_voltage = Some(res.v)]
    ELSE ReadFailed(g, "Failed to read main battery voltage")

ReadLogicBattery(g, res) ==
    IF res.ok THEN [g EXCEPT !.logic_battery_voltage = Some(res.v)]
    ELSE ReadFailed(g, "Failed to read logic battery voltage")

ReadEncoders(g, res) ==
    IF res.ok THEN [g EXCEPT !.encoder_m1 = Some(res.v[1]), !.encoder_m2 = Some(res.v[2])]
    ELSE ReadFailed(g, "Failed to read encoders")

\* Mutant: a failed fault-register read clears the flags it could not read.
ReadErrorClearing(g, res) ==
    IF res.ok
    THEN LET g1 == [g EXCEPT !.status_flags = Some(res.v)]
         IN  IF ~MotorErrorShowing(g1.status_message)
             THEN [g1 EXCEPT !.status_message = "Connected"]
             ELSE g1
    ELSE ReadFailed([g EXCEPT !.status_flags = None],
                    "Failed to read error status: " \o res.e)

\* Mutant: a successful fault-register read leaves the status as it is.
ReadErrorKeepingStatus(g, res) ==
    IF res.ok
    THEN [g EXCEPT !.status_flags = Some(res.v)]
    ELSE ReadFailed(g, "Failed to read error status: " \o res.e)

\* Mutant: a successful fault-register read always shows "Connected".
ReadErrorUnguarded(g, res) ==
    IF res.ok
    THEN [g EXCEPT !.status_flags = Some(res.v), !.status_message = "Connected"]
    ELSE ReadFailed(g, "Failed to read error status: " \o res.e)

ReadError(g, res) ==
    IF res.ok
    THEN LET g1 == [g EXCEPT !.status_flags = Some(res.v)]
         IN  IF ~MotorErrorShowing(g1.status_message)
             THEN [g1 EXCEPT !.status_message = "Connected"]
             ELSE g1
    ELSE ReadFailed(g, "Failed to read error status: " \o res.e)

GetConfig(g, res) ==
    IF res.ok THEN [g EXCEPT !.config_flags = Some(res.v)]
    ELSE LateReadFailed(g, "Failed to read config")

ReadBuffers(g, res) ==
    IF res.ok THEN [g EXCEPT !.buffer_status = Some(res.v)]
    ELSE LateReadFailed(g, "Failed to read buffers")

\* Mutant: the pass stops at the first read that fails.
PollCallsUntilFailure(r) ==
    LET all == << <<"read_main_battery_voltage", r.main>>,
                  <<"read_logic_battery_voltage", r.logic>>,
                  <<"read_encoders", r.enc>>,
                  <<"read_error", r.error>>,
                  <<"get_config", r.config>>,
                  <<"read_buffers", r.buffers>> >>
        n == IF \A i \in 1..6 : all[i][2].ok THEN 6
             ELSE CHOOSE i \in 1..6 :
                    ~all[i][2].ok /\ \A j \in 1..(i - 1) : all[j][2].ok
    IN  [i \in 1..n |-> Call(all[i][1], <<>>)]

PollCalls(r) ==
    << Call("read_main_battery_voltage", <<>>),
       Call("read_logic_battery_voltage", <<>>),
       Call("read_encoders", <<>>),
       Call("read_error", <<>>),
       Call("get_config", <<>>),
       Call("read_buffers", <<>>) >>

\* Mutant: the pass does not depend on a device handle.
read_status_without_handle(g, r) ==
    IF ~(g.last_update > polling_interval(g.status_message))
    THEN Done(g, <<>>)
    ELSE Done([ReadBuffers(GetConfig(ReadError(ReadEncoders(ReadLogicBattery(
                    ReadMainBattery(g, r.main), r.logic), r.enc), r.error),
                    r.config), r.buffers)
                EXCEPT !.last_update = 0],
              PollCalls(r))

\* Mutant: the fault register is read first, before the voltages.
read_status_fault_first(g, r) ==
    IF g.roboclaw = None
    THEN Done(g, <<>>)
    ELSE IF ~(g.last_update > polling_interval(g.status_message))
    THEN Done(g, <<>>)
    ELSE LET g1 == ReadError(g, r.error)
             g2 == ReadMainBattery(g1, r.main)
             g3 == ReadLogicBattery(g2, r.logic)
             g4 == ReadEncoders(g3, r.enc)
             g5 == GetConfig(g4, r.config)
             g6 == ReadBuffers(g5, r.buffers)
         IN  Done([g6 EXCEPT !.last_update = 0], PollCalls(r))

read_status(g, r) ==
    IF g.roboclaw = None
    THEN Done(g, <<>>)
    ELSE IF ~(g.last_update > polling_interval(g.status_message))
    THEN Done(g, <<>>)
    ELSE LET g1 == ReadMainBattery(g, r.main)
             g2 == ReadLogicBattery(g1, r.logic)
             g3 == ReadEncoders(g2, r.enc)
             g4 == ReadError(g3, r.error)
             g5 == GetConfig(g4, r.config)
             g6 == ReadBuffers(g5, r.buffers)
         IN  Done([g6 EXCEPT !.last_update = 0], PollCalls(r))

\* Mutant: a failed reset gives the device up.
reset_encoders_dropping_handle(g, res) ==
    IF g.roboclaw = None
    THEN Done(g, <<>>)
    ELSE Done(IF res.ok THEN g
              ELSE [g EXCEPT !.status_message = "Reset encoders error: " \o res.e,
                             !.roboclaw = None,
                             !.connected = FALSE],
              <<Call("reset_encoders", <<>>)>>)

\* The Reset Encoders button's closure.
reset_encoders(g, res) ==
    IF g.roboclaw = None
    THEN Done(g, <<>>)
    ELSE Done(IF res.ok THEN g
              ELSE [g EXCEPT !.status_message = "Reset encoders error: " \o res.e],
              <<Call("reset_encoders", <<>>)>>)

(***************************************************************************)
(* Outcomes the environment chooses.                                       *)
(***************************************************************************)
\* The five reads whose error the code discards fail in one way.
AnyError == {"timeout"}

SendResults == Results({"unit"}, DeviceErrors)
OpenResults == Results({"Roboclaw"}, OpenErrors)

\* Every combination of outcomes of the six reads of a pass.
PollResults ==
    [ main    : Results(Volts, AnyError),
      logic   : Results(Volts, AnyError),
      enc     : Results(EncoderPairs, AnyError),
      error   : Results(FlagWords, DeviceErrors),
      config  : Results(FlagWords, AnyError),
      buffers : Results(BufferPairs, AnyError) ]

\* The passes in which the voltage and encoder reads succeed.
LatePollResults ==
    {r \in PollResults : r.main.ok /\ r.logic.ok /\ r.enc.ok}

\* The passes in which the reads before the fault register share one outcome,
\* and so do the reads after it.
GroupedPollResults ==
    {r \in PollResults :
        /\ r.main.ok = r.logic.ok /\ r.logic.ok = r.enc.ok
        /\ r.config.ok = r.buffers.ok}

(***************************************************************************)
(* Actions: the places of eframe::App::update that invoke the handlers.    *)
(* event' names the handler and the outcome of its device operation (of    *)
(* the transport open for connect).                                        *)
(***************************************************************************)
Handled(name, res, d) ==
    /\ gui' = d.gui
    /\ calls' = d.calls
    /\ event' = [op |-> name, res |-> res]

Init ==
    /\ gui = Default
    /\ calls = <<>>
    /\ event = [op |-> "new", res |-> Ok("unit")]

\* Time passes between two frames: no handler runs.
Elapse(deltas) ==
    \E d \in deltas :
        /\ gui.last_update + d <= MaxElapsed
        /\ gui' = [gui EXCEPT !.last_update = @ + d]
        /\ calls' = <<>>
        /\ event' = [op |-> "elapse", res |-> Ok("unit")]

\* update() begins every frame with read_status().  Whether a pass is made is
\* decided before the first read, so the outcomes are enumerated only for a
\* frame that makes one.
Frame(results) ==
    LET unread == CHOOSE r \in results : TRUE
    IN  IF read_status(gui, unread).calls = <<>>
        THEN Handled("read_status", Ok("unit"), read_status(gui, unread))
        ELSE \E r \in results :
                Handled("read_status", Ok("unit"), read_status(gui, r))

ClickConnect ==
    /\ ~gui.connected
    /\ \E open \in OpenResults : Handled("connect", open, connect(gui, open))

ClickDisconnect ==
    /\ gui.connected
    /\ Handled("disconnect", Ok("unit"), disconnect(gui))

\* Everything below the connection panel is laid out only while connected.
ClickEmergencyStop ==
    /\ gui.connected
    /\ \E res \in SendResults :
        Handled("emergency_stop", res, emergency_stop(gui, res))

\* A slider reports changed() when it is moved to another value.
SlideM1(values) ==
    /\ gui.connected
    /\ \E v \in values \ {gui.m1_speed}, res \in SendResults :
        Handled("update_motor_speeds", res,
                update_motor_speeds([gui EXCEPT !.m1_speed = v], res))

SlideM2(values) ==
    /\ gui.connected
    /\ \E v \in values \ {gui.m2_speed}, res \in SendResults :
        Handled("update_motor_speeds", res,
                update_motor_speeds([gui EXCEPT !.m2_speed = v], res))

ClickStopBoth ==
    /\ gui.connected
    /\ \E res \in SendResults :
        Handled("update_motor_speeds", res,
                update_motor_speeds([gui EXCEPT !.m1_speed = 0, !.m2_speed = 0], res))

SlideMixedSpeed(values) ==
    /\ gui.connected
    /\ \E v \in values \ {gui.mixed_speed}, res \in SendResults :
        Handled("update_mixed_control", res,
                update_mixed_control([gui EXCEPT !.mixed_speed = v], res))

SlideMixedTurn(values) ==
    /\ gui.connected
    /\ \E v \in values \ {gui.mixed_turn}, res \in SendResults :
        Handled("update_mixed_control", res,
                update_mixed_control([gui EXCEPT !.mixed_turn = v], res))

ClickStopMixed ==
    /\ gui.connected
    /\ \E res \in SendResults :
        Handled("update_mixed_control", res,
                update_mixed_control([gui EXCEPT !.mixed_speed = 0, !.mixed_turn = 0], res))

ClickResetEncoders ==
    /\ gui.connected
    /\ \E res \in SendResults :
        Handled("reset_encoders", res, reset_encoders(gui, res))

(***************************************************************************)
(* Spec: every control of the panel, a poll due whenever time has passed,  *)
(* passes in which the voltage and encoder reads succeed.                  *)
(***************************************************************************)
SliderValues == {0, Pct(50)}

Next ==
    \/ Elapse({MaxElapsed})
    \/ Frame(LatePollResults)
    \/ ClickConnect
    \/ ClickDisconnect
    \/ ClickEmergencyStop
    \/ SlideM1(SliderValues)
    \/ SlideM2(SliderValues)
    \/ ClickStopBoth
    \/ SlideMixedSpeed(SliderValues)
    \/ SlideMixedTurn(SliderValues)
    \/ ClickStopMixed
    \/ ClickResetEncoders

Spec == Init /\ [][Next]_vars

(***************************************************************************)
(* SpecPoll: every combination of read outcomes, one slider of each        *)
(* control group.                                                          *)
(***************************************************************************)
NextPoll ==
    \/ Elapse({MaxElapsed})
    \/ Frame(PollResults)
    \/ ClickConnect
    \/ ClickDisconnect
    \/ ClickEmergencyStop
    \/ SlideM1(SliderValues)
    \/ SlideMixedSpeed(SliderValues)
    \/ ClickResetEncoders

SpecPoll == Init /\ [][NextPoll]_vars

(***************************************************************************)
(* SpecTime: frames every FrameMs, one slider, grouped read outcomes.      *)
(***************************************************************************)
FrameMs == 500

NextTime ==
    \/ Elapse({FrameMs})
    \/ Frame(GroupedPollResults)
    \/ ClickConnect
    \/ ClickDisconnect
    \/ SlideM1(SliderValues)
    \/ ClickResetEncoders

SpecTime == Init /\ [][NextTime]_vars

(***************************************************************************)
(* SpecLive: SpecTime with the scheduling of the event loop.  update asks  *)
(* for a repaint 100 ms after every frame, so frames keep being run, and   *)
(* the clock keeps advancing.                                              *)
(***************************************************************************)
SpecLive ==
    /\ SpecTime
    /\ WF_vars(Elapse({FrameMs}))
    /\ WF_vars(Frame(GroupedPollResults))

(***************************************************************************)
(* SpecIndividual and SpecMixed: the two sliders of one control group,     *)
(* dragged a percent at a time over the whole of their range.              *)
(***************************************************************************)
\* The sliders range over -100.0..=100.0.
MaxPercent == 100

Percents == {Pct(p) : p \in -MaxPercent..MaxPercent}

OnePercentAway(v) == {v - Pct(1), v + Pct(1)} \cap Percents

NextIndividual ==
    \/ ClickConnect
    \/ SlideM1(OnePercentAway(gui.m1_speed))
    \/ SlideM2(OnePercentAway(gui.m2_speed))

SpecIndividual == Init /\ [][NextIndividual]_vars

NextMixed ==
    \/ ClickConnect
    \/ SlideMixedSpeed(OnePercentAway(gui.mixed_speed))
    \/ SlideMixedTurn(OnePercentAway(gui.mixed_turn))

SpecMixed == Init /\ [][NextMixed]_vars

(***************************************************************************)
(* Vocabulary of the properties.                                           *)
(***************************************************************************)
StartsWith(s, p) == Len(s) >= Len(p) /\ SubSeq(s, 1, Len(p)) = p

\* The texts the telemetry poller writes when a read fails.
IsReadFailure(msg) == StartsWith(msg, "Failed to read")
IsMotorError(msg) ==
    StartsWith(msg, "Motor control error: ") \/ StartsWith(msg, "Mixed control error: ")
IsResetError(msg) == StartsWith(msg, "Reset encoders error: ")

\* The latest step was a frame whose read_status made a poll pass.
PassMade == event.op = "read_status" /\ calls # <<>>

\* A frame run on g makes a poll pass; that is decided before the first read.
PassDue(g) == read_status(g, CHOOSE r \in PollResults : TRUE).calls # <<>>

IntentsZero(g) ==
    g.m1_speed = 0 /\ g.m2_speed = 0 /\ g.mixed_speed = 0 /\ g.mixed_turn = 0

StopCall == [op |-> "speed_m1_m2", args |-> <<0, 0>>]

(***************************************************************************)
(* C1: once the status message is a motor or mixed control error, no step  *)
(* replaces it by a telemetry-read-failure text, and a frame (read_status, *)
(* whatever the outcomes of its six reads) leaves it as it is.             *)
(***************************************************************************)
C1_MotorErrorOutranksReadFailure ==
    [][ IsMotorError(gui.status_message) =>
            /\ ~IsReadFailure(gui'.status_message)
            /\ (event'.op = "read_status" =>
                    gui'.status_message = gui.status_message) ]_vars

\* A pass in which every read failed (no field was ever populated) has just
\* been made and a motor control error is still showing.
C1_Witness ==
    /\ PassMade
    /\ IsMotorError(gui.status_message)
    /\ gui.main_battery_voltage = None
    /\ gui.logic_battery_voltage = None
    /\ gui.encoder_m1 = None
    /\ gui.status_flags = None
    /\ gui.config_flags = None
    /\ gui.buffer_status = None

C3_StopZeroesIntentsInAnyState ==
    \A res \in SendResults :
        LET d == emergency_stop(gui, res)
        IN  /\ IntentsZero(d.gui)
            /\ d.calls = IF gui.connected THEN <<StopCall>> ELSE <<>>

(***************************************************************************)
(* C3 as amended: with a device handle (the only state in which the        *)
(* control is laid out) emergency_stop leaves the four intent fields 0 and *)
(* issues exactly one speed_m1_m2(0, 0); without a handle it issues no     *)
(* device call and leaves the four intent fields as they were.             *)
(***************************************************************************)
C3_StopZeroesIntentsWhenConnected ==
    /\ \A res \in SendResults :
        LET d == emergency_stop(gui, res)
        IN  IF gui.roboclaw # None
            THEN IntentsZero(d.gui) /\ d.calls = <<StopCall>>
            ELSE d.gui = gui /\ d.calls = <<>>
    /\ (event.op = "emergency_stop" =>
            gui.connected /\ IntentsZero(gui) /\ calls = <<StopCall>>)

\* An emergency stop has just zeroed the intents; the motor control error of
\* the last individual send, made with both sliders at 50%, is still showing.
C3_Witness ==
    /\ event.op = "emergency_stop"
    /\ IntentsZero(gui)
    /\ calls = <<StopCall>>
    /\ Contains(gui.status_message, "(M1:50000, M2:50000)")

(***************************************************************************)
(* C4 as stated: emergency stop while connected changes the status message *)
(* as the individual send of (0, 0) does.                                  *)
(***************************************************************************)
C4_StopReportsLikeSend ==
    gui.roboclaw # None =>
        \A res \in SendResults :
            emergency_stop(gui, res).gui.status_message =
                update_motor_speeds([gui EXCEPT !.m1_speed = 0, !.m2_speed = 0],
                                    res).gui.status_message

(***************************************************************************)
(* C4 as amended: emergency stop never changes the status message: the     *)
(* outcome of its device call is discarded, so a failure shows no motor    *)
(* control error and a success does not restore "Connected".               *)
(***************************************************************************)
C4_StopLeavesStatus ==
    [][ event'.op = "emergency_stop" =>
            gui'.status_message = gui.status_message ]_vars

\* An emergency stop whose device call failed, and no motor control error.
C4_Witness ==
    /\ event.op = "emergency_stop"
    /\ ~event.res.ok
    /\ gui.status_message = "Connected"

(***************************************************************************)
(* C5 as stated: while connected, a frame makes no poll pass before 2000   *)
(* ms have elapsed since last_update if the status message holds a read-   *)
(* failure marker, and otherwise makes one as soon as at least 500 ms have *)
(* elapsed.                                                                *)
(***************************************************************************)
HasFailureMarker(msg) == Contains(msg, "crc error") \/ Contains(msg, "Failed to read")

C5_PollAtLeastInterval ==
    [][ event'.op = "read_status" /\ gui.connected =>
            IF HasFailureMarker(gui.status_message)
            THEN calls' # <<>> => gui.last_update >= 2000
            ELSE gui.last_update >= 500 => calls' # <<>> ]_vars

(***************************************************************************)
(* C5 as amended: while connected, a frame makes a poll pass exactly when  *)
(* more than 2000 ms have elapsed since last_update if the status message  *)
(* holds a read-failure marker ("crc error" or "Failed to read"), and      *)
(* exactly when more than 500 ms have elapsed otherwise.                   *)
(***************************************************************************)
C5_PollAfterInterval ==
    [][ event'.op = "read_status" /\ gui.connected =>
            (calls' # <<>> <=>
                gui.last_update >
                    IF HasFailureMarker(gui.status_message) THEN 2000 ELSE 500) ]_vars

\* A frame at exactly 500 ms, connected and with no marker, made no pass.
C5_Witness ==
    /\ gui.connected
    /\ event.op = "read_status"
    /\ calls = <<>>
    /\ gui.last_update = 500
    /\ ~HasFailureMarker(gui.status_message)

(***************************************************************************)
(* C6: a read that fails in a poll pass leaves its telemetry field as it   *)
(* was, None included; no step sets a populated field back to None, and    *)
(* no step other than a frame changes a telemetry field.                   *)
(***************************************************************************)
Telemetry(g) ==
    << g.main_battery_voltage, g.logic_battery_voltage, g.encoder_m1, g.encoder_m2,
       g.status_flags, g.config_flags, g.buffer_status >>

FailedReadsKeep(g, r) ==
    LET d == read_status(g, r).gui
    IN  /\ ~r.main.ok => d.main_battery_voltage = g.main_battery_voltage
        /\ ~r.logic.ok => d.logic_battery_voltage = g.logic_battery_voltage
        /\ ~r.enc.ok => d.encoder_m1 = g.encoder_m1 /\ d.encoder_m2 = g.encoder_m2
        /\ ~r.error.ok => d.status_flags = g.status_flags
        /\ ~r.config.ok => d.config_flags = g.config_flags
        /\ ~r.buffers.ok => d.buffer_status = g.buffer_status

C6_TelemetryIsNeverLost ==
    /\ [](\A r \in PollResults : FailedReadsKeep(gui, r))
    /\ [][ /\ \A i \in 1..7 : Telemetry(gui)[i] # None => Telemetry(gui')[i] # None
           /\ event'.op # "read_status" => Telemetry(gui') = Telemetry(gui) ]_vars

\* A pass has just ended with its fault-register read failed, and the flags
\* of an earlier pass are still there.
C6_Witness ==
    /\ PassMade
    /\ StartsWith(gui.status_message, "Failed to read error status: ")
    /\ gui.status_flags # None

(***************************************************************************)
(* C7: a send (update_motor_speeds or update_mixed_control) issues exactly *)
(* one speed_m1_m2 call, and when that call fails the status message is    *)
(* the motor (mixed) control error text with the error and the two values  *)
(* sent, whatever was showing before.                                      *)
(***************************************************************************)
C7_FailedSendSetsError ==
    event.op \in {"update_motor_speeds", "update_mixed_control"} =>
        /\ Len(calls) = 1
        /\ calls[1].op = "speed_m1_m2"
        /\ ~event.res.ok =>
            gui.status_message =
                IF event.op = "update_motor_speeds"
                THEN "Motor control error: " \o event.res.e
                        \o " (M1:" \o ToString(calls[1].args[1])
                        \o ", M2:" \o ToString(calls[1].args[2]) \o ")"
                ELSE "Mixed control error: " \o event.res.e
                        \o " (L:" \o ToString(calls[1].args[1])
                        \o ", R:" \o ToString(calls[1].args[2]) \o ")"

\* A mixed send with speed and turn at 50% has just failed.
C7_Witness ==
    /\ event.op = "update_mixed_control"
    /\ ~event.res.ok
    /\ gui.status_message = "Mixed control error: crc error (L:25000, R:75000)"

(***************************************************************************)
(* C8: a successful send sets the status message to "Connected" if the     *)
(* message did not contain "Failed to read", and leaves it as it was       *)
(* otherwise.                                                              *)
(***************************************************************************)
C8_SuccessfulSendRestoresConnected ==
    [][ event'.op \in {"update_motor_speeds", "update_mixed_control"}
            /\ event'.res.ok =>
            gui'.status_message =
                IF ~Contains(gui.status_message, "Failed to read")
                THEN "Connected"
                ELSE gui.status_message ]_vars

\* A send has just succeeded and a read-failure text is still showing.
C8_Witness ==
    /\ event.op = "update_motor_speeds"
    /\ event.res.ok
    /\ IsReadFailure(gui.status_message)

(***************************************************************************)
(* C9: while disconnected, a frame issues no device call and leaves the    *)
(* status message as it is, and so would every handler of an operator      *)
(* control (sliders, stop buttons, emergency stop, reset encoders).        *)
(***************************************************************************)
Idle(g, d) == d.calls = <<>> /\ d.gui.status_message = g.status_message

HandlersIdle(g) ==
    /\ \A r \in LatePollResults : Idle(g, read_status(g, r))
    /\ \A res \in SendResults, v \in SliderValues :
        /\ Idle(g, emergency_stop(g, res))
        /\ Idle(g, reset_encoders(g, res))
        /\ Idle(g, update_motor_speeds([g EXCEPT !.m1_speed = v], res))
        /\ Idle(g, update_motor_speeds([g EXCEPT !.m2_speed = v], res))
        /\ Idle(g, update_mixed_control([g EXCEPT !.mixed_speed = v], res))
        /\ Idle(g, update_mixed_control([g EXCEPT !.mixed_turn = v], res))

C9_DisconnectedIsIdle ==
    /\ [](~gui.connected => HandlersIdle(gui))
    /\ [][ ~gui.connected /\ event'.op # "connect" =>
            calls' = <<>> /\ gui'.status_message = gui.status_message ]_vars

\* A frame ran after a disconnect, with the poll interval long elapsed and a
\* slider left at 50%: nothing was read, the text is still "Disconnected".
C9_Witness ==
    /\ ~gui.connected
    /\ event.op = "read_status"
    /\ calls = <<>>
    /\ gui.last_update > 2000
    /\ gui.m1_speed # 0
    /\ gui.status_message = "Disconnected"

(***************************************************************************)
(* C10: connect issues no device operation; a successful open stores the   *)
(* handle, sets connected and shows "Connected - Testing                   *)
(* communication..."; a failed open leaves the session disconnected        *)
(* without a handle and shows the reason; only a connect step connects.    *)
(***************************************************************************)
C10_ConnectFollowsOpen ==
    /\ [](event.op = "connect" =>
            /\ calls = <<>>
            /\ IF event.res.ok
               THEN /\ gui.connected
                    /\ gui.roboclaw # None
                    /\ gui.status_message = "Connected - Testing communication..."
               ELSE /\ ~gui.connected
                    /\ gui.roboclaw = None
                    /\ gui.status_message = "Failed to open port: " \o event.res.e)
    /\ [][ ~gui.connected /\ gui'.connected =>
            event'.op = "connect" /\ event'.res.ok ]_vars

\* An open has just failed.
C10_Witness ==
    /\ event.op = "connect"
    /\ ~event.res.ok
    /\ ~gui.connected
    /\ gui.status_message = "Failed to open port: No such file or directory"

(***************************************************************************)
(* C11: the connected flag and the device handle change only in a connect  *)
(* or a disconnect step: no send, emergency stop, reset or frame, failed   *)
(* or not, changes either of them.                                         *)
(***************************************************************************)
Session(g) == <<g.connected, g.roboclaw>>

HandlersKeepSession(g) ==
    /\ \A r \in PollResults : Session(read_status(g, r).gui) = Session(g)
    /\ \A res \in SendResults :
        /\ Session(emergency_stop(g, res).gui) = Session(g)
        /\ Session(reset_encoders(g, res).gui) = Session(g)
        /\ Session(update_motor_speeds(g, res).gui) = Session(g)
        /\ Session(update_mixed_control(g, res).gui) = Session(g)

C11_SessionChangesOnlyByConnectDisconnect ==
    /\ [](HandlersKeepSession(gui))
    /\ [][ Session(gui') # Session(gui) =>
            event'.op \in {"connect", "disconnect"} ]_vars

\* A reset has just failed and the session still holds its handle.
C11_Witness ==
    /\ event.op = "reset_encoders"
    /\ ~event.res.ok
    /\ gui.connected
    /\ gui.roboclaw = Some("Roboclaw")

(***************************************************************************)
(* C12: from any state disconnect leaves connected false, no handle and    *)
(* the status "Disconnected", the connected flag and status of the initial *)
(* state; a second disconnect changes nothing more.                        *)
(***************************************************************************)
C12_DisconnectIsIdempotent ==
    LET d == disconnect(gui).gui
    IN  /\ ~d.connected
        /\ d.roboclaw = None
        /\ d.status_message = "Disconnected"
        /\ d.connected = Default.connected
        /\ d.status_message = Default.status_message
        /\ disconnect(d).gui = d
        /\ (event.op = "disconnect" => gui = d)

\* A session that polled and drove a motor has just been disconnected: the
\* flag and the status are those of the initial state, the rest is not.
C12_Witness ==
    /\ event.op = "disconnect"
    /\ ~gui.connected
    /\ gui.status_message = "Disconnected"
    /\ gui.status_flags # None
    /\ gui.m1_speed # 0

(***************************************************************************)
(* C13: an individual send made with the sliders at whole percentages m1   *)
(* and m2 of -100..100 issues exactly one device call,                     *)
(* speed_m1_m2(m1 * 1000, m2 * 1000).                                      *)
(***************************************************************************)
IsPercent(x) ==
    x % SliderUnits = 0 /\ (x \div SliderUnits) \in -MaxPercent..MaxPercent

Whole(x) == x \div SliderUnits

C13_IndividualScaling ==
    /\ event.op = "update_motor_speeds"
    /\ IsPercent(gui.m1_speed)
    /\ IsPercent(gui.m2_speed)
    => calls = << [op |-> "speed_m1_m2",
                   args |-> <<Whole(gui.m1_speed) * 1000,
                              Whole(gui.m2_speed) * 1000>>] >>

\* The sliders at 50% and -25%: speed_m1_m2(50000, -25000) has been issued.
C13_Witness ==
    /\ event.op = "update_motor_speeds"
    /\ gui.m1_speed = Pct(50)
    /\ gui.m2_speed = Pct(-25)
    /\ calls = << [op |-> "speed_m1_m2", args |-> <<50000, -25000>>] >>

(***************************************************************************)
(* C14: a mixed send made with the sliders at whole percentages speed and  *)
(* turn of -100..100 issues exactly one device call, speed_m1_m2(left,     *)
(* right) with left = speed * 1000 - turn * 500 and right = speed * 1000 + *)
(* turn * 500, so that right - left = turn * 1000 and left + right =       *)
(* speed * 2000.                                                           *)
(***************************************************************************)
C14_MixedScaling ==
    /\ event.op = "update_mixed_control"
    /\ IsPercent(gui.mixed_speed)
    /\ IsPercent(gui.mixed_turn)
    => LET speed == Whole(gui.mixed_speed)
           turn  == Whole(gui.mixed_turn)
           left  == calls[1].args[1]
           right == calls[1].args[2]
       IN  /\ Len(calls) = 1
           /\ calls[1].op = "speed_m1_m2"
           /\ left = speed * 1000 - turn * 500
           /\ right = speed * 1000 + turn * 500
           /\ right - left = turn * 1000
           /\ left + right = speed * 2000

\* Speed at 40% and turn at 20%: speed_m1_m2(30000, 50000) has been issued.
C14_Witness ==
    /\ event.op = "update_mixed_control"
    /\ gui.mixed_speed = Pct(40)
    /\ gui.mixed_turn = Pct(20)
    /\ calls = << [op |-> "speed_m1_m2", args |-> <<30000, 50000>>] >>

(***************************************************************************)
(* C15 as stated: in a pass made while no motor or mixed control error is  *)
(* showing and whose fault-register read succeeds, the last read to fail   *)
(* among main voltage, logic voltage, encoders, config and buffers gives   *)
(* the status message the pass ends with.                                  *)
(***************************************************************************)
TierFailed(r) ==
    ~r.main.ok \/ ~r.logic.ok \/ ~r.enc.ok \/ ~r.config.ok \/ ~r.buffers.ok

LastTierFailure(r) ==
    IF ~r.buffers.ok THEN "Failed to read buffers"
    ELSE IF ~r.config.ok THEN "Failed to read config"
    ELSE IF ~r.enc.ok THEN "Failed to read encoders"
    ELSE IF ~r.logic.ok THEN "Failed to read logic battery voltage"
    ELSE "Failed to read main battery voltage"

C15_LastFailedReadShows ==
    PassDue(gui) /\ ~MotorErrorShowing(gui.status_message) =>
        \A r \in PollResults :
            r.error.ok /\ TierFailed(r) =>
                read_status(gui, r).gui.status_message = LastTierFailure(r)

(***************************************************************************)
(* C15 as amended: in a pass made while no motor or mixed control error is *)
(* showing and whose fault-register read succeeds, only the config and     *)
(* buffer reads, made after it, give the final status: "Failed to read     *)
(* buffers" if the buffer read fails, else "Failed to read config" if the  *)
(* config read fails, else "Connected", whatever the voltage and encoder   *)
(* reads did.                                                              *)
(***************************************************************************)
C15_LastLateFailedReadShows ==
    PassDue(gui) /\ ~MotorErrorShowing(gui.status_message) =>
        \A r \in PollResults :
            r.error.ok =>
                read_status(gui, r).gui.status_message =
                    IF ~r.buffers.ok THEN "Failed to read buffers"
                    ELSE IF ~r.config.ok THEN "Failed to read config"
                    ELSE "Connected"

\* A pass has just ended with "Connected" although its main-voltage read
\* failed, as every main-voltage read before it did.
C15_Witness ==
    /\ PassMade
    /\ gui.main_battery_voltage = None
    /\ gui.logic_battery_voltage # None
    /\ gui.status_message = "Connected"

(***************************************************************************)
(* C16: in a pass made while no motor or mixed control error is showing,   *)
(* a failed fault-register read leaves "Failed to read error status: <e>"  *)
(* as the final status, whether the config and buffer reads fail or not.   *)
(***************************************************************************)
C16_FaultReadFailureOutranksLateReads ==
    PassDue(gui) /\ ~MotorErrorShowing(gui.status_message) =>
        \A r \in PollResults :
            ~r.error.ok =>
                read_status(gui, r).gui.status_message =
                    "Failed to read error status: " \o r.error.e

\* A pass has just ended with the fault-register failure text although its
\* config and buffer reads failed too, as all of them did before.
C16_Witness ==
    /\ PassMade
    /\ StartsWith(gui.status_message, "Failed to read error status: ")
    /\ gui.config_flags = None
    /\ gui.buffer_status = None
    /\ gui.main_battery_voltage # None

(***************************************************************************)
(* C17: a successful fault-register read sets the status to "Connected"    *)
(* exactly when no motor or mixed control error is showing; a pass made    *)
(* while one is showing leaves the status message as it is, whatever its   *)
(* reads return, all six succeeding included.                              *)
(***************************************************************************)
AllOk(r) ==
    r.main.ok /\ r.logic.ok /\ r.enc.ok /\ r.error.ok /\ r.config.ok /\ r.buffers.ok

C17_FaultReadResetsUnlessMotorError ==
    /\ \A res \in Results(FlagWords, {}) :
            ReadError(gui, res).status_message =
                IF MotorErrorShowing(gui.status_message)
                THEN gui.status_message
                ELSE "Connected"
    /\ PassDue(gui) =>
        \A r \in PollResults :
            LET d == read_status(gui, r)
            IN  /\ (r.error.ok /\ r.config.ok /\ r.buffers.ok =>
                        (d.gui.status_message = "Connected"
                            <=> ~MotorErrorShowing(gui.status_message)))
                /\ (MotorErrorShowing(gui.status_message) =>
                        d.gui.status_message = gui.status_message)

\* A pass has just been made with every field populated, and the motor
\* control error that was showing before it is still showing.
C17_Witness ==
    /\ PassMade
    /\ IsMotorError(gui.status_message)
    /\ \A i \in 1..7 : Telemetry(gui)[i] # None

(***************************************************************************)
(* C18: a pass issues the six reads once each, in the order main voltage,  *)
(* logic voltage, encoders, fault flags, config flags, buffers, whichever  *)
(* of them fail, and ends by restarting the poll clock.                    *)
(***************************************************************************)
SixReads ==
    << [op |-> "read_main_battery_voltage", args |-> <<>>],
       [op |-> "read_logic_battery_voltage", args |-> <<>>],
       [op |-> "read_encoders", args |-> <<>>],
       [op |-> "read_error", args |-> <<>>],
       [op |-> "get_config", args |-> <<>>],
       [op |-> "read_buffers", args |-> <<>>] >>

C18_PassMakesAllSixReads ==
    /\ PassDue(gui) =>
        \A r \in PollResults :
            LET d == read_status(gui, r)
            IN  d.calls = SixReads /\ d.gui.last_update = 0
    /\ (PassMade => calls = SixReads /\ gui.last_update = 0)

\* A pass in which every read failed, as all did before: six reads were
\* issued and the poll clock restarted.
C18_Witness ==
    /\ PassMade
    /\ \A i \in 1..7 : Telemetry(gui)[i] = None
    /\ Len(calls) = 6
    /\ gui.last_update = 0
    /\ StartsWith(gui.status_message, "Failed to read error status: ")

(***************************************************************************)
(* C19: while the session stays connected poll passes keep being made,     *)
(* whatever the status message is; a frame run more than 2000 ms after the *)
(* last pass makes one; and a pass in which all six reads succeed, made    *)
(* while no motor or mixed control error is showing, ends with "Connected" *)
(* and the 500 ms interval.                                                *)
(***************************************************************************)
C19_PollingNeverStops ==
    /\ []<>(~gui.connected \/ PassMade)
    /\ [][ event'.op = "read_status" /\ gui.connected /\ gui.last_update > 2000 =>
            calls' # <<>> ]_vars
    /\ [](PassDue(gui) /\ ~MotorErrorShowing(gui.status_message) =>
            \A r \in PollResults :
                AllOk(r) =>
                    LET d == read_status(gui, r).gui
                    IN  /\ d.status_message = "Connected"
                        /\ polling_interval(d.status_message) = 500)

\* A pass has just been made while a motor control error carrying the
\* "crc error" marker, which slows the polling, is showing.
C19_Witness ==
    /\ PassMade
    /\ gui.connected
    /\ StartsWith(gui.status_message, "Motor control error: crc error")

(***************************************************************************)
(* C20: in every reachable state connected is true exactly when a device   *)
(* handle is stored.                                                       *)
(***************************************************************************)
C20_ConnectedIffHandle ==
    gui.connected <=> gui.roboclaw # None

\* A second session has just been opened, after one that polled and was
\* disconnected.
C20_Witness ==
    /\ event.op = "connect"
    /\ event.res.ok
    /\ gui.connected
    /\ gui.roboclaw # None
    /\ gui.main_battery_voltage # None

(***************************************************************************)
(* C21: a pass made while no motor or mixed control error is showing ends  *)
(* with "Connected", "Failed to read error status: <e>", "Failed to read   *)
(* config" or "Failed to read buffers"; no step leaves a main-voltage,     *)
(* logic-voltage or encoder failure text showing, and a pass in which only *)
(* those reads fail ends with the 500 ms interval.                         *)
(***************************************************************************)
EarlyFailureTexts ==
    { "Failed to read main battery voltage",
      "Failed to read logic battery voltage",
      "Failed to read encoders" }

PassEndKind(msg) ==
    \/ msg = "Connected"
    \/ StartsWith(msg, "Failed to read error status: ")
    \/ msg = "Failed to read config"
    \/ msg = "Failed to read buffers"

C21_PassEndsInOneOfFourKinds ==
    /\ gui.status_message \notin EarlyFailureTexts
    /\ (PassMade /\ ~MotorErrorShowing(gui.status_message) =>
            PassEndKind(gui.status_message))
    /\ (PassDue(gui) /\ ~MotorErrorShowing(gui.status_message) =>
            \A r \in PollResults :
                r.error.ok /\ r.config.ok /\ r.buffers.ok =>
                    LET d == read_status(gui, r).gui
                    IN  /\ d.status_message = "Connected"
                        /\ polling_interval(d.status_message) = 500)

\* A pass has just ended in which the voltage and encoder reads failed, as
\* they always had, and the fault register was read: "Connected" is showing
\* and the next pass is due after 500 ms.
C21_Witness ==
    /\ PassMade
    /\ gui.main_battery_voltage = None
    /\ gui.logic_battery_voltage = None
    /\ gui.encoder_m1 = None
    /\ gui.status_flags # None
    /\ gui.status_message = "Connected"
    /\ polling_interval(gui.status_message) = 500

====
